---- MODULE Spec2Model ----
(***************************************************************************)
(* Model of Folio-OCR's server.py: the layout-aware OCR pipeline            *)
(* (detect_layout, ocr_image_with_layout, _ocr_whole_image, _split_image,   *)
(* _postprocess), the page store behind ocr_single_page / ocr_all_pages,    *)
(* and the text parser behind the DOCX export (_parse_ocr_text,             *)
(* _parse_md_table, the span splitting of _build_docx).                     *)
(*                                                                         *)
(* Text is a sequence of characters; a character is a one-character string *)
(* (a non-ASCII character is written as its code point, "U+00BD").          *)
(***************************************************************************)
EXTENDS Integers, Sequences, FiniteSets, TLC

VARIABLES pages, req, sp, nz, pr

vars == <<pages, req, sp, nz, pr>>

(***************************************************************************)
(* Characters and strings                                                  *)
(***************************************************************************)
NL == "\n"
BS == "\\"
Lower == {"a","b","c","d","e","f","g","h","i","j","k","l","m",
          "n","o","p","q","r","s","t","u","v","w","x","y","z"}
Upper == {"A","B","C","D","E","F","G","H","I","J","K","L","M",
          "N","O","P","Q","R","S","T","U","V","W","X","Y","Z"}
Digits == {"0","1","2","3","4","5","6","7","8","9"}
\* the Unicode characters the substitution tables produce
UHalf == "U+00BD"
UAlpha == "U+03B1"
UTimes == "U+00D7"
CircledChars ==
  <<"U+2460","U+2461","U+2462","U+2463","U+2464","U+2465","U+2466",
    "U+2467","U+2468","U+2469","U+246A","U+246B","U+246C","U+246D",
    "U+246E","U+246F","U+2470","U+2471","U+2472","U+2473">>

\* str.strip(): the characters Python treats as whitespace
WS == {" ", NL, "\t", "\r"}
\* [a-zA-Z]
IsLetter(c) == c \in Lower \cup Upper
\* \d
IsDigit(c) == c \in Digits
\* \w (Unicode letters and numerals count as word characters)
IsWord(c) ==
  \/ IsLetter(c)
  \/ IsDigit(c)
  \/ c = "_"
  \/ c \in {UHalf, UAlpha}
  \/ \E k \in 1..Len(CircledChars) : c = CircledChars[k]

\* s[a:b] for 0-based a and exclusive b, both within 0..len(s)
Slice(s, a, b) == SubSeq(s, a + 1, b)

\* s.startswith(p), tested at 0-based offset i
StartsAt(s, i, p) ==
  /\ i + Len(p) <= Len(s)
  /\ \A k \in 1..Len(p) : s[i + k] = p[k]

StartsWith(s, p) == StartsAt(s, 0, p)

EndsWith(s, p) == Len(p) <= Len(s) /\ StartsAt(s, Len(s) - Len(p), p)

RECURSIVE LStripSet(_, _)
LStripSet(s, cs) ==
  IF s # <<>> /\ Head(s) \in cs THEN LStripSet(Tail(s), cs) ELSE s

RECURSIVE RStripSet(_, _)
RStripSet(s, cs) ==
  IF s # <<>> /\ s[Len(s)] \in cs
  THEN RStripSet(SubSeq(s, 1, Len(s) - 1), cs)
  ELSE s

\* str.strip(chars)
StripSet(s, cs) == RStripSet(LStripSet(s, cs), cs)

\* str.strip()
Strip(s) == StripSet(s, WS)

\* the end (exclusive, 0-based) of the longest run of characters of cs that
\* starts at offset i
RECURSIVE RunEnd(_, _, _)
RunEnd(s, i, cs) ==
  IF i < Len(s) /\ s[i + 1] \in cs THEN RunEnd(s, i + 1, cs) ELSE i

\* the end of the longest run starting at i of characters that are not stop
RECURSIVE RunEndNot(_, _, _)
RunEndNot(s, i, stop) ==
  IF i < Len(s) /\ s[i + 1] # stop THEN RunEndNot(s, i + 1, stop) ELSE i

Range(s) == {s[k] : k \in 1..Len(s)}

\* sep.join(parts)
RECURSIVE Join(_, _)
Join(parts, sep) ==
  IF parts = <<>> THEN <<>>
  ELSE IF Len(parts) = 1 THEN parts[1]
  ELSE parts[1] \o sep \o Join(Tail(parts), sep)

\* s.split(c) for a one-character separator c
RECURSIVE SplitChar(_, _)
SplitChar(s, c) ==
  LET e == RunEndNot(s, 0, c)
  IN  IF e = Len(s) THEN <<s>>
      ELSE <<Slice(s, 0, e)>> \o SplitChar(Slice(s, e + 1, Len(s)), c)

\* the first offset >= i at which p occurs in s, or -1 (str.find)
RECURSIVE Find(_, _, _)
Find(s, p, i) ==
  IF i + Len(p) > Len(s) THEN -1
  ELSE IF StartsAt(s, i, p) THEN i
  ELSE Find(s, p, i + 1)

(***************************************************************************)
(* Text Normalizer: _postprocess and _latex_to_unicode                     *)
(***************************************************************************)
\* the backtick, written as its code point
BT == "U+0060"
Fence == <<BT, BT, BT>>

\* re.sub of ^[3 backticks]\w*\n? by the empty string: the pattern is anchored at offset 0
StripLeadingFence(t) ==
  IF StartsWith(t, Fence)
  THEN LET w == RunEnd(t, 3, {c \in Range(t) : IsWord(c)})
           e == IF w < Len(t) /\ t[w + 1] = NL THEN w + 1 ELSE w
       IN  Slice(t, e, Len(t))
  ELSE t

\* '$' of a pattern without re.MULTILINE: the end, or just before a final "\n"
AtDollar(t, e) == e = Len(t) \/ (e = Len(t) - 1 /\ t[Len(t)] = NL)

\* the regular expressions applied with re.sub
PatTrailingFence == "trailing_fence"
PatCircled == "textcircled"
PatFrac == "frac"
PatBare == "bare"

LitCircled == <<"$", BS, "t","e","x","t","c","i","r","c","l","e","d", "{">>
LitFrac == <<"$", BS, "f","r","a","c", "{">>
LitClose == <<"}", "$">>
LitMid == <<"}", "{">>

\* the end (exclusive) of the match of pattern pat that starts at offset i of
\* t, or -1 when the pattern does not match there
MatchEnd(pat, t, i) ==
  CASE pat = PatTrailingFence ->
         \* \n?[3 backticks]$
         LET j == IF i < Len(t) /\ t[i + 1] = NL THEN i + 1 ELSE i
         IN  IF StartsAt(t, j, Fence) /\ AtDollar(t, j + 3) THEN j + 3 ELSE -1
    [] pat = PatCircled ->
         \* \$\\textcircled\{(\d+)\}\$
         IF ~StartsAt(t, i, LitCircled) THEN -1
         ELSE LET a == i + Len(LitCircled)
                  b == RunEnd(t, a, Digits)
              IN  IF b > a /\ StartsAt(t, b, LitClose) THEN b + 2 ELSE -1
    [] pat = PatFrac ->
         \* \$\\frac\{([^}]+)\}\{([^}]+)\}\$
         IF ~StartsAt(t, i, LitFrac) THEN -1
         ELSE LET a == i + Len(LitFrac)
                  b == RunEndNot(t, a, "}")
                  c == b + 2
                  d == RunEndNot(t, c, "}")
              IN  IF /\ b > a
                     /\ StartsAt(t, b, LitMid)
                     /\ d > c
                     /\ StartsAt(t, d, LitClose)
                  THEN d + 2 ELSE -1
    [] pat = PatBare ->
         \* \$\\([a-zA-Z]+)\$
         IF ~StartsAt(t, i, <<"$", BS>>) THEN -1
         ELSE LET a == i + 2
                  b == RunEnd(t, a, Lower \cup Upper)
              IN  IF b > a /\ StartsAt(t, b, <<"$">>) THEN b + 1 ELSE -1

DigitVal(c) == CHOOSE n \in 0..9 : <<"0","1","2","3","4","5","6","7","8","9">>[n + 1] = c

\* _CIRCLED = {str(i): chr(0x2460 + i - 1) for i in range(1, 21)}: the index
\* of the key equal to the digit string d, or 0 when d is no key
CircledIndex(d) ==
  IF Len(d) = 1 /\ d[1] # "0" THEN DigitVal(d[1])
  ELSE IF Len(d) = 2 /\ d[1] = "1" THEN 10 + DigitVal(d[2])
  ELSE IF d = <<"2", "0">> THEN 20
  ELSE 0

\* _LATEX_DATA["fractions"]: the glyph registered for "num/den", or <<>>
\* (latex_unicode.json is not part of the sources; "1/2" is the entry the
\* documentation names)
LatexFractions(key) ==
  IF key = <<"1", "/", "2">> THEN <<UHalf>> ELSE <<>>

\* _LATEX_SIMPLE: (command, character) pairs, longest command first
LatexSimple ==
  << <<  <<BS, "a","l","p","h","a">>, <<UAlpha>> >>,
     <<  <<BS, "t","i","m","e","s">>, <<UTimes>> >> >>

\* what the match t[i:e] of pattern pat is replaced by
Replacement(pat, t, i, e) ==
  CASE pat = PatTrailingFence -> <<>>
    [] pat = PatCircled ->
         LET d == Slice(t, i + Len(LitCircled), e - 2)
             k == CircledIndex(d)
         IN  IF k = 0 THEN Slice(t, i, e) ELSE <<CircledChars[k]>>
    [] pat = PatFrac ->
         LET a == i + Len(LitFrac)
             b == RunEndNot(t, a, "}")
             num == Slice(t, a, b)
             den == Slice(t, b + 2, e - 2)
             key == num \o <<"/">> \o den
         IN  IF LatexFractions(key) # <<>> THEN LatexFractions(key) ELSE key
    [] pat = PatBare -> <<BS>> \o Slice(t, i + 2, e - 1)

\* re.sub(pat, repl, t), scanning from offset i: the leftmost match is
\* replaced and the scan goes on after it
RECURSIVE ReSubFrom(_, _, _)
ReSubFrom(pat, t, i) ==
  IF i >= Len(t) THEN <<>>
  ELSE LET e == MatchEnd(pat, t, i)
       IN  IF e > i
           THEN Replacement(pat, t, i, e) \o ReSubFrom(pat, t, e)
           ELSE <<t[i + 1]>> \o ReSubFrom(pat, t, i + 1)

ReSub(pat, t) == ReSubFrom(pat, t, 0)

\* t.replace(tok, rep), scanning from offset i
RECURSIVE ReplaceFrom(_, _, _, _)
ReplaceFrom(t, tok, rep, i) ==
  IF i >= Len(t) THEN <<>>
  ELSE IF StartsAt(t, i, tok)
       THEN rep \o ReplaceFrom(t, tok, rep, i + Len(tok))
       ELSE <<t[i + 1]>> \o ReplaceFrom(t, tok, rep, i + 1)

\* for latex_cmd, unicode_char in _LATEX_SIMPLE: replace "$" + cmd + "$"
RECURSIVE ReplaceSimple(_, _)
ReplaceSimple(t, k) ==
  IF k > Len(LatexSimple) THEN t
  ELSE LET token == <<"$">> \o LatexSimple[k][1] \o <<"$">>
       IN  ReplaceSimple(
             IF Find(t, token, 0) >= 0
             THEN ReplaceFrom(t, token, LatexSimple[k][2], 0)
             ELSE t,
             k + 1)

_latex_to_unicode(text) ==
  LET t1 == ReSub(PatCircled, text)
      t2 == ReSub(PatFrac, t1)
      t3 == ReplaceSimple(t2, 1)
  IN  ReSub(PatBare, t3)

_postprocess(text) ==
  LET t1 == StripLeadingFence(Strip(text))
      t2 == ReSub(PatTrailingFence, Strip(t1))
  IN  Strip(_latex_to_unicode(t2))

(***************************************************************************)
(* Optional values: None is the empty sequence, a set value x is <<x>>      *)
(***************************************************************************)
None == <<>>
Some(x) == <<x>>

(***************************************************************************)
(* Region Selector: detect_layout                                          *)
(***************************************************************************)
\* _LAYOUT_SKIP_LABELS
LayoutSkipLabels == {"header", "footer", "footnote", "number"}

\* a sort key with the coordinates swapped: (x1, y1)
ReadingKeyLess_XFirst(a, b) ==
  \/ a.bbox[1] < b.bbox[1]
  \/ a.bbox[1] = b.bbox[1] /\ a.bbox[2] < b.bbox[2]

\* the sort key of regions.sort: (bbox[1], bbox[0]) = (y1, x1)
ReadingKeyLess(a, b) ==
  \/ a.bbox[2] < b.bbox[2]
  \/ a.bbox[2] = b.bbox[2] /\ a.bbox[1] < b.bbox[1]

\* list.sort is stable: r goes after every element whose key is not greater
RECURSIVE InsertRegion(_, _)
InsertRegion(sorted, r) ==
  IF sorted = <<>> THEN <<r>>
  ELSE IF ReadingKeyLess(r, Head(sorted)) THEN <<r>> \o sorted
  ELSE <<Head(sorted)>> \o InsertRegion(Tail(sorted), r)

RECURSIVE SortRegions(_)
SortRegions(rs) ==
  IF rs = <<>> THEN <<>>
  ELSE InsertRegion(SortRegions(SubSeq(rs, 1, Len(rs) - 1)), rs[Len(rs)])

KeepLabel(r) == r.label \notin LayoutSkipLabels

\* the regions of the detector's output (label, rounded bbox; the score is
\* carried along unused and left out) that survive the skip-set, in
\* reading order
detect_layout(raw) == SortRegions(SelectSeq(raw, KeepLabel))

(***************************************************************************)
(* Tall-Image Splitter: _split_image                                       *)
(***************************************************************************)
MAX_IMAGE_HEIGHT == 1600
SEGMENT_OVERLAP == 80

Min(a, b) == IF a < b THEN a ELSE b

\* the loop body stepping by the window, the overlap forgotten
SplitIter_NoOverlap(st, h, H, O) ==
  LET bottom == Min(st.y + H, h)
  IN  [y |-> st.y + H,
       segments |-> Append(st.segments, <<st.y, bottom>>),
       running |-> (bottom # h) /\ (st.y + H < h)]

\* one pass of the body of "while y < h" for an image of height h, window H
\* and overlap O; st = [y, segments, running]; a segment is <<top, bottom>>
SplitIter(st, h, H, O) ==
  LET bottom == Min(st.y + H, h)
  IN  [y |-> st.y + (H - O),
       segments |-> Append(st.segments, <<st.y, bottom>>),
       running |-> (bottom # h) /\ (st.y + (H - O) < h)]

SplitStart(h) == [y |-> 0, segments |-> <<>>, running |-> 0 < h]

RECURSIVE SplitLoop(_, _, _, _)
SplitLoop(st, h, H, O) ==
  IF st.running THEN SplitLoop(SplitIter(st, h, H, O), h, H, O)
  ELSE st.segments

\* the vertical ranges of the segments _split_image crops
_split_image(h) ==
  SplitLoop(SplitStart(h), h, MAX_IMAGE_HEIGHT, SEGMENT_OVERLAP)

(***************************************************************************)
(* Segmentation Controller: ocr_image_with_layout and _ocr_whole_image     *)
(*                                                                         *)
(* An invocation on one page image is the record                           *)
(*   status      "await" (an engine call is in flight), "returned",        *)
(*               "raised"                                                  *)
(*   raised_by   "" | "detector" | "engine"                                *)
(*   mode        "regions" | "whole"                                       *)
(*   raw_regions the Region Selector's list                                *)
(*   units       the images to recognise, in order: a region crop, the     *)
(*               whole image, or a segment of the splitter                 *)
(*   regions     the per-region results collected so far                   *)
(*   all_text    the non-empty chunk texts collected so far (whole mode)   *)
(*   text        the combined text, once returned                          *)
(* and, as history, det (what the detector gave), calls (the units sent to *)
(* the engine, in the order sent), replies (how many calls have come       *)
(* back), unit_texts (the normalized text of each unit recognised) and     *)
(* split_calls (the number of calls of _split_image).                      *)
(***************************************************************************)
BlankLine == <<NL, NL>>

CropUnit(region) == [src |-> "crop", box |-> region.bbox]
WholeUnit(img) == [src |-> "whole", box |-> <<0, 0, img.w, img.h>>]
SegmentUnit(img, seg) == [src |-> "segment", box |-> <<0, seg[1], img.w, seg[2]>>]

NoInvocation ==
  [status |-> "none", raised_by |-> "", mode |-> "", raw_regions |-> <<>>,
   units |-> <<>>, regions |-> <<>>, all_text |-> <<>>, text |-> <<>>,
   det |-> None, calls |-> <<>>, replies |-> 0, unit_texts |-> <<>>,
   split_calls |-> 0]

\* _ocr_whole_image splitting from MAX_IMAGE_HEIGHT on (>= for >)
WholeImageStart_SplitsAtLimit(img, det) ==
  LET segs == _split_image(img.h)
      units == IF img.h >= MAX_IMAGE_HEIGHT
               THEN [k \in 1..Len(segs) |-> SegmentUnit(img, segs[k])]
               ELSE <<WholeUnit(img)>>
  IN  [NoInvocation EXCEPT
         !.status = "await", !.mode = "whole", !.units = units,
         !.det = det, !.calls = <<units[1]>>,
         !.split_calls = IF img.h >= MAX_IMAGE_HEIGHT THEN 1 ELSE 0]

\* _ocr_whole_image up to its first "await _ocr_single"
WholeImageStart(img, det) ==
  LET tall == img.h > MAX_IMAGE_HEIGHT
      segs == _split_image(img.h)
      units == IF tall
               THEN [k \in 1..Len(segs) |-> SegmentUnit(img, segs[k])]
               ELSE <<WholeUnit(img)>>
  IN  [NoInvocation EXCEPT
         !.status = "await", !.mode = "whole", !.units = units,
         !.det = det, !.calls = <<units[1]>>,
         !.split_calls = IF tall THEN 1 ELSE 0]

\* ocr_image_with_layout catching the detector's exception and going on as
\* if no region had been found
LayoutStart_FallsBack(img, det) ==
  LET raw_regions == IF det.ok THEN detect_layout(det.raw) ELSE <<>>
  IN  IF raw_regions = <<>>
      THEN WholeImageStart(img, Some(det))
      ELSE LET units == [k \in 1..Len(raw_regions) |-> CropUnit(raw_regions[k])]
           IN  [NoInvocation EXCEPT
                  !.status = "await", !.mode = "regions",
                  !.raw_regions = raw_regions, !.units = units,
                  !.det = Some(det), !.calls = <<units[1]>>]

\* ocr_image_with_layout up to its first "await _ocr_single"; det is the
\* detector's outcome: [ok |-> FALSE] when it raises, else its raw regions
LayoutStart(img, det) ==
  IF ~det.ok
  THEN [NoInvocation EXCEPT
          !.status = "raised", !.raised_by = "detector", !.det = Some(det)]
  ELSE LET raw_regions == detect_layout(det.raw)
       IN  IF raw_regions = <<>>
           THEN WholeImageStart(img, Some(det))
           ELSE LET units == [k \in 1..Len(raw_regions) |->
                                CropUnit(raw_regions[k])]
                IN  [NoInvocation EXCEPT
                       !.status = "await", !.mode = "regions",
                       !.raw_regions = raw_regions, !.units = units,
                       !.det = Some(det), !.calls = <<units[1]>>]

\* the page's processing as the endpoints start it: with or without layout
InvocationStart(img, layout, det) ==
  IF layout THEN LayoutStart(img, det) ELSE WholeImageStart(img, None)

\* the texts of all regions, the empty ones too (no "if r["text"]")
RegionTexts_KeepEmpty(regions) ==
  [k \in 1..Len(regions) |-> regions[k].text]

\* "\n\n".join(r["text"] for r in regions if r["text"])
RECURSIVE RegionTexts(_)
RegionTexts(regions) ==
  IF regions = <<>> THEN <<>>
  ELSE (IF Head(regions).text # <<>> THEN <<Head(regions).text>> ELSE <<>>)
       \o RegionTexts(Tail(regions))

CombineRegions(regions) == Join(RegionTexts(regions), BlankLine)

\* "\n\n".join(all_text)
CombineChunks(all_text) == Join(all_text, BlankLine)

\* if text: all_text.append(text)
CollectChunk(all_text, text) ==
  IF text # <<>> THEN Append(all_text, text) ELSE all_text

\* regions.append({"idx": i, "label": ..., "bbox": ..., "text": text or ""})
CollectRegion(regions, region, text) ==
  Append(regions, [idx |-> Len(regions), label |-> region.label,
                   bbox |-> region.bbox, text |-> text])

\* an exception of _ocr_single answered by sending the same unit again
EngineRaised_Retries(inv) ==
  [inv EXCEPT !.calls = Append(inv.calls, inv.calls[Len(inv.calls)])]

\* what an exception of _ocr_single does to the invocation: it propagates
EngineRaised(inv) ==
  [inv EXCEPT !.status = "raised", !.raised_by = "engine",
              !.replies = inv.replies + 1]

\* the invocation goes on with the normalized text of the reply to its call
\* in flight, to its next "await _ocr_single" or to its return
InvocationCollect(inv, text) ==
  LET n == inv.replies + 1
      regions == IF inv.mode = "regions"
                 THEN CollectRegion(inv.regions, inv.raw_regions[n], text)
                 ELSE inv.regions
      all_text == IF inv.mode = "whole"
                  THEN CollectChunk(inv.all_text, text)
                  ELSE inv.all_text
      more == n < Len(inv.units)
  IN  [inv EXCEPT
         !.replies = n,
         !.unit_texts = Append(inv.unit_texts, text),
         !.regions = regions,
         !.all_text = all_text,
         !.calls = IF more THEN Append(inv.calls, inv.units[n + 1])
                   ELSE inv.calls,
         !.status = IF more THEN "await" ELSE "returned",
         !.text = IF more THEN <<>>
                  ELSE IF inv.mode = "regions" THEN CombineRegions(regions)
                  ELSE CombineChunks(all_text)]

\* the invocation resumes with the engine's reply: reply is [ok |-> FALSE]
\* when _ocr_single raises, else the engine's raw text
InvocationResume(inv, reply) ==
  IF ~reply.ok THEN EngineRaised(inv)
  ELSE InvocationCollect(inv, _postprocess(reply.text))

(***************************************************************************)
(* The page store (documents[doc_id]["pages"]) and the OCR endpoints       *)
(*                                                                         *)
(* One uploaded document is modelled. A handler runs without interruption  *)
(* from one "await" to the next (detect_layout is a synchronous call), so  *)
(* an action is a request's start up to its first engine call, or the      *)
(* arrival of an engine reply up to the next engine call or the response.  *)
(***************************************************************************)
\* the bounds of the model
NumPages == 2
MaxRegions == 3

AllClients == {1, 2}

\* image sizes of the uploaded pages: at, just above and well above the
\* splitter's window
ImageSizes ==
  {[w |-> 1200, h |-> hh] :
     hh \in {MAX_IMAGE_HEIGHT, MAX_IMAGE_HEIGHT + 1, 2 * MAX_IMAGE_HEIGHT}}

\* what the detector may report: boxes sharing a top edge, boxes on
\* different rows, and a label of the skip-set
TextBox == [label |-> "text", bbox |-> <<20, 0, 30, 10>>]
TitleBox == [label |-> "title", bbox |-> <<0, 0, 10, 10>>]
TableBox == [label |-> "table", bbox |-> <<0, 20, 10, 30>>]
HeaderBox == [label |-> "header", bbox |-> <<5, 0, 15, 5>>]
Detections == {TextBox, TitleBox, TableBox, HeaderBox}

RECURSIVE SeqsUpTo(_, _)
SeqsUpTo(S, n) ==
  IF n = 0 THEN {<<>>}
  ELSE LET shorter == SeqsUpTo(S, n - 1)
       IN  shorter \cup {Append(q, x) : q \in shorter, x \in S}

NoRepeat(q) == \A i, j \in 1..Len(q) : i # j => q[i] # q[j]

DetectorFailed == [ok |-> FALSE, raw |-> <<>>]
Detected(raw) == [ok |-> TRUE, raw |-> raw]

\* every outcome of the detector with at most MaxRegions distinct boxes
DetectorOutcomes ==
  {DetectorFailed} \cup
  {Detected(q) : q \in {x \in SeqsUpTo(Detections, MaxRegions) : NoRepeat(x)}}

\* the outcomes the server is run against: failure, no region, only a
\* skipped region, two regions out of reading order
ServerDetectorOutcomes ==
  {DetectorFailed, Detected(<<>>), Detected(<<HeaderBox>>),
   Detected(<<TableBox, TextBox>>)}

\* what the engine may answer: text in a code fence, or nothing but white
\* space
EngineFailed == [ok |-> FALSE, text |-> <<>>]
EngineTexts == { <<BT, BT, BT, NL, "a", NL, BT, BT, BT>>, <<" ">> }
EngineReplies == {EngineFailed} \cup {[ok |-> TRUE, text |-> t] : t \in EngineTexts}

\* round(time.time() - t0, 2)
Elapsed == "elapsed"

\* page_info as upload_files appends it
NewPage(n, img) ==
  [num |-> n, img |-> img,
   ocr_text |-> None, ocr_regions |-> None, ocr_time |-> None]

Idle ==
  [pc |-> "idle", kind |-> "", layout |-> TRUE, page |-> 0,
   inv |-> NoInvocation, results |-> <<>>, invs |-> <<>>, response |-> None]

\* the cached answer leaves the stored regions out
StoredRegions_Dropped(page) == <<>>

\* page.get("ocr_regions") or []
StoredRegions(page) ==
  IF page.ocr_regions = None THEN <<>> ELSE page.ocr_regions[1]

\* the three assignments that store a page's outcome
StorePage(page, inv) ==
  [page EXCEPT !.ocr_text = Some(inv.text),
               !.ocr_regions = Some(inv.regions),
               !.ocr_time = Some(Elapsed)]

\* ---- ocr_single_page ----
SingleCached(page) ==
  [status |-> 200, page_num |-> page.num, text |-> page.ocr_text[1],
   regions |-> StoredRegions(page), time |-> page.ocr_time, cached |-> TRUE]

SingleFresh(page, inv) ==
  [status |-> 200, page_num |-> page.num, text |-> inv.text,
   regions |-> inv.regions, time |-> Some(Elapsed), cached |-> FALSE]

\* raise HTTPException(500, f"OCR failed: ...")
SingleFailed(inv) == [status |-> 500, detail |-> inv.raised_by]

PageNotFound == [status |-> 404, detail |-> "Page not found"]

\* the index of the first page whose num is page_num, or 0
FindPage(ps, page_num) ==
  IF \E k \in 1..Len(ps) : ps[k].num = page_num
  THEN CHOOSE k \in 1..Len(ps) :
         /\ ps[k].num = page_num
         /\ \A j \in 1..(k - 1) : ps[j].num # page_num
  ELSE 0

\* ---- ocr_all_pages ----
AllCached(page) ==
  [page_num |-> page.num, text |-> page.ocr_text, regions |-> StoredRegions(page),
   time |-> page.ocr_time, cached |-> TRUE]

AllFresh(page, inv) ==
  [page_num |-> page.num, text |-> Some(inv.text), regions |-> inv.regions,
   time |-> Some(Elapsed), cached |-> FALSE]

\* an except-branch that reports what the page had collected so far
AllFailed_KeepsPartial(page, inv) ==
  [page_num |-> page.num, text |-> Some(CombineRegions(inv.regions)),
   regions |-> inv.regions, time |-> None, error |-> inv.raised_by]

\* the entry the except-branch appends
AllFailed(page, inv) ==
  [page_num |-> page.num, text |-> None, regions |-> <<>>,
   time |-> None, error |-> inv.raised_by]

\* results.append(entry) in any of the three branches; the invocation that
\* gave the entry is kept beside it as history
AddResult(rq, entry, inv) ==
  [rq EXCEPT !.results = Append(rq.results, entry),
             !.invs = Append(rq.invs, inv)]

AllResponse(results) == [status |-> 200, results |-> results]

\* "for page in doc["pages"]" from page k on, up to the next engine call or
\* to the response; dets lists what the detector does on its successive calls
RECURSIVE AllPagesFrom(_, _, _, _)
AllPagesFrom(k, rq, ps, dets) ==
  IF k > Len(ps)
  THEN [rq EXCEPT !.pc = "done", !.page = 0, !.inv = NoInvocation,
                  !.response = Some(AllResponse(rq.results))]
  ELSE IF ps[k].ocr_text # None
  THEN AllPagesFrom(k + 1, AddResult(rq, AllCached(ps[k]), NoInvocation), ps, dets)
  ELSE LET inv == InvocationStart(ps[k].img, rq.layout, Head(dets))
           rest == IF rq.layout THEN Tail(dets) ELSE dets
       IN  IF inv.status = "raised"
           THEN AllPagesFrom(k + 1, AddResult(rq, AllFailed(ps[k], inv), inv),
                             ps, rest)
           ELSE [rq EXCEPT !.pc = "await", !.page = k, !.inv = inv]

\* the detector's behaviour over the calls of one handler step: it raises on
\* the first m calls and answers the next one (a step makes no detector call
\* after one that succeeded, and at most one call per page)
DetectorScripts(outcomes, n) ==
  {[k \in 1..(m + 1) |-> IF k <= m THEN DetectorFailed ELSE d] :
     m \in 0..n, d \in outcomes \ {DetectorFailed}}

\* the scripts to try when request rq goes on after page k: none unless it
\* is a layout run over all pages with pages left
ScriptsAfter(rq, k, ps, outcomes) ==
  IF rq.kind = "all" /\ rq.layout /\ k < Len(ps)
  THEN DetectorScripts(outcomes, Len(ps) - k)
  ELSE {<<>>}

(***************************************************************************)
(* The other components' state, idle while the server runs                 *)
(***************************************************************************)
SplitIdle == [pc |-> "idle"]
NormIdle == [pc |-> "idle"]
ParseIdle == [pc |-> "idle"]

(***************************************************************************)
(* The server: a document of NumPages tall pages, requests of one client   *)
(* at a time                                                               *)
(***************************************************************************)
TallImage == [w |-> 1200, h |-> MAX_IMAGE_HEIGHT + 1]

Init ==
  /\ pages = [k \in 1..NumPages |-> NewPage(k, TallImage)]
  /\ req = [c \in AllClients |-> Idle]
  /\ sp = SplitIdle
  /\ nz = NormIdle
  /\ pr = ParseIdle

\* POST /api/ocr/{doc_id}/{page_num}, up to the first engine call
StartSingle(c, page_num, layout, det) ==
  /\ req[c].pc = "idle"
  /\ LET k == FindPage(pages, page_num)
         rq == [Idle EXCEPT !.kind = "single", !.layout = layout, !.page = k]
     IN  req' = [req EXCEPT ![c] =
           IF k = 0
           THEN [rq EXCEPT !.pc = "done", !.response = Some(PageNotFound)]
           ELSE IF pages[k].ocr_text # None
           THEN [rq EXCEPT !.pc = "done", !.response = Some(SingleCached(pages[k]))]
           ELSE LET inv == InvocationStart(pages[k].img, layout, det)
                IN  IF inv.status = "raised"
                    THEN [rq EXCEPT !.pc = "done", !.inv = inv,
                                    !.response = Some(SingleFailed(inv))]
                    ELSE [rq EXCEPT !.pc = "await", !.inv = inv]]
  /\ UNCHANGED <<pages, sp, nz, pr>>

\* POST /api/ocr/{doc_id}/all, up to the first engine call
StartAll(c, layout, dets) ==
  /\ req[c].pc = "idle"
  /\ req' = [req EXCEPT ![c] =
       AllPagesFrom(1, [Idle EXCEPT !.kind = "all", !.layout = layout], pages, dets)]
  /\ UNCHANGED <<pages, sp, nz, pr>>

\* the handler of request c goes on from "await _ocr_single" with its
\* invocation in state inv
AfterReply(c, inv, dets) ==
  LET rq == req[c]
      k == rq.page
      stored == [pages EXCEPT ![k] = StorePage(pages[k], inv)]
  IN  CASE inv.status = "await" ->
             /\ req' = [req EXCEPT ![c] = [rq EXCEPT !.inv = inv]]
             /\ pages' = pages
        [] inv.status = "returned" /\ rq.kind = "single" ->
             /\ pages' = stored
             /\ req' = [req EXCEPT ![c] =
                  [rq EXCEPT !.pc = "done", !.inv = inv,
                             !.response = Some(SingleFresh(pages[k], inv))]]
        [] inv.status = "returned" /\ rq.kind = "all" ->
             /\ pages' = stored
             /\ req' = [req EXCEPT ![c] =
                  AllPagesFrom(k + 1, AddResult(rq, AllFresh(pages[k], inv), inv),
                               stored, dets)]
        [] inv.status = "raised" /\ rq.kind = "single" ->
             /\ pages' = pages
             /\ req' = [req EXCEPT ![c] =
                  [rq EXCEPT !.pc = "done", !.inv = inv,
                             !.response = Some(SingleFailed(inv))]]
        [] inv.status = "raised" /\ rq.kind = "all" ->
             /\ pages' = pages
             /\ req' = [req EXCEPT ![c] =
                  AllPagesFrom(k + 1, AddResult(rq, AllFailed(pages[k], inv), inv),
                               pages, dets)]

\* the engine's reply reaches the handler waiting in "await _ocr_single"
EngineReply(c, reply, dets) ==
  /\ req[c].pc = "await"
  /\ \E inv \in {InvocationResume(req[c].inv, reply)} : AfterReply(c, inv, dets)
  /\ UNCHANGED <<sp, nz, pr>>

\* the response has been sent; the client may send its next request
Return(c) ==
  /\ req[c].pc = "done"
  /\ req' = [req EXCEPT ![c] = Idle]
  /\ UNCHANGED <<pages, sp, nz, pr>>

ClientStep(c, outcomes) ==
  \/ \E n \in 1..(Len(pages) + 1), layout \in BOOLEAN, det \in outcomes :
       StartSingle(c, n, layout, det)
  \/ \E layout \in BOOLEAN :
       \E dets \in ScriptsAfter([kind |-> "all", layout |-> layout], 0, pages, outcomes) :
         StartAll(c, layout, dets)
  \/ \E reply \in EngineReplies :
       \E dets \in ScriptsAfter(req[c], req[c].page, pages, outcomes) :
         EngineReply(c, reply, dets)
  \/ Return(c)

Next == ClientStep(1, ServerDetectorOutcomes)

Spec == Init /\ [][Next]_vars

(***************************************************************************)
(* One page: a document of a single page of any size, every outcome of the *)
(* detector                                                                *)
(***************************************************************************)
InitPage ==
  /\ pages \in {<<NewPage(1, img)>> : img \in ImageSizes}
  /\ req = [c \in AllClients |-> Idle]
  /\ sp = SplitIdle
  /\ nz = NormIdle
  /\ pr = ParseIdle

NextPage == ClientStep(1, DetectorOutcomes)

SpecPage == InitPage /\ [][NextPage]_vars

(***************************************************************************)
(* Concurrent requests: the handlers of all clients interleave at their    *)
(* "await" points, on a document of short pages                            *)
(***************************************************************************)
ShortImage == [w |-> 1200, h |-> MAX_IMAGE_HEIGHT]

ConcDetectorOutcomes == {DetectorFailed, Detected(<<>>), Detected(<<TextBox>>)}

InitConc ==
  /\ pages = [k \in 1..NumPages |-> NewPage(k, ShortImage)]
  /\ req = [c \in AllClients |-> Idle]
  /\ sp = SplitIdle
  /\ nz = NormIdle
  /\ pr = ParseIdle

NextConc == \E c \in AllClients : ClientStep(c, ConcDetectorOutcomes)

SpecConc == InitConc /\ [][NextConc]_vars

(***************************************************************************)
(* Structured Parser: _TableParser, _parse_md_table, _parse_ocr_text       *)
(*                                                                         *)
(* An element is [type |-> "heading", level, text], [type |-> "paragraph", *)
(* text] or [type |-> "table", rows, header_rows].                         *)
(***************************************************************************)
LowerLetters ==
  <<"a","b","c","d","e","f","g","h","i","j","k","l","m",
    "n","o","p","q","r","s","t","u","v","w","x","y","z">>
UpperLetters ==
  <<"A","B","C","D","E","F","G","H","I","J","K","L","M",
    "N","O","P","Q","R","S","T","U","V","W","X","Y","Z">>

\* str.lower() of one character
ToLower(c) ==
  IF c \in Upper
  THEN LowerLetters[CHOOSE k \in 1..26 : UpperLetters[k] = c]
  ELSE c

LowerCase(t) == [k \in 1..Len(t) |-> ToLower(t[k])]

\* the literal p (in lower case) occurs at offset i of t, whatever the case
StartsAtCI(t, i, p) ==
  /\ i + Len(p) <= Len(t)
  /\ \A k \in 1..Len(p) : ToLower(t[i + k]) = p[k]

RECURSIVE FindCI(_, _, _)
FindCI(t, p, i) ==
  IF i + Len(p) > Len(t) THEN -1
  ELSE IF StartsAtCI(t, i, p) THEN i
  ELSE FindCI(t, p, i + 1)

TableOpen == <<"<", "t", "a", "b", "l", "e">>
TableClose == <<"<", "/", "t", "a", "b", "l", "e", ">">>

\* re.split(r'(<table[\s\S]*?</table>)', text, flags=re.IGNORECASE), from
\* offset i on: the texts between the blocks and the blocks, alternating
RECURSIVE SplitTables(_, _)
SplitTables(t, i) ==
  LET a == FindCI(t, TableOpen, i)
      e == IF a < 0 THEN -1 ELSE FindCI(t, TableClose, a + Len(TableOpen))
  IN  IF e < 0 THEN <<Slice(t, i, Len(t))>>
      ELSE <<Slice(t, i, a), Slice(t, a, e + Len(TableClose))>>
           \o SplitTables(t, e + Len(TableClose))

\* re.match(r'^<table[\s\S]*</table>$', part, re.IGNORECASE)
IsHtmlTable(part) ==
  /\ StartsAtCI(part, 0, TableOpen)
  /\ \E e \in (Len(TableOpen) + Len(TableClose))..Len(part) :
       /\ StartsAtCI(part, e - Len(TableClose), TableClose)
       /\ AtDollar(part, e)

\* _TableParser.__init__
TableParserStart ==
  [rows |-> <<>>, in_cell |-> FALSE, cell_text |-> <<>>, current_row |-> <<>>,
   is_header_row |-> FALSE, header_row_indices |-> {}]

\* _TableParser.handle_starttag
HandleStartTag(ps, tag) ==
  IF tag = <<"t", "r">>
  THEN [ps EXCEPT !.current_row = <<>>, !.is_header_row = FALSE]
  ELSE IF tag \in {<<"t", "d">>, <<"t", "h">>}
  THEN [ps EXCEPT !.in_cell = TRUE, !.cell_text = <<>>,
                  !.is_header_row = (tag = <<"t", "h">>) \/ ps.is_header_row]
  ELSE ps

\* _TableParser.handle_endtag
HandleEndTag(ps, tag) ==
  IF tag \in {<<"t", "d">>, <<"t", "h">>}
  THEN [ps EXCEPT !.in_cell = FALSE,
                  !.current_row = Append(ps.current_row, Strip(ps.cell_text))]
  ELSE IF tag = <<"t", "r">> /\ ps.current_row # <<>>
  THEN [ps EXCEPT
          !.header_row_indices =
             IF ps.is_header_row THEN ps.header_row_indices \cup {Len(ps.rows)}
             ELSE ps.header_row_indices,
          !.rows = Append(ps.rows, ps.current_row)]
  ELSE ps

\* _TableParser.handle_data, one character at a time
HandleData(ps, c) ==
  IF ps.in_cell THEN [ps EXCEPT !.cell_text = Append(ps.cell_text, c)] ELSE ps

\* the end of the tag name that starts at offset i
RECURSIVE TagNameEnd(_, _)
TagNameEnd(t, i) ==
  IF i < Len(t) /\ t[i + 1] \notin (WS \cup {"/", ">"})
  THEN TagNameEnd(t, i + 1) ELSE i

\* HTMLParser.feed on a block of plain tags (<name ...>, </name>) and text;
\* character references, comments and quoted '>' are not modelled
RECURSIVE Feed(_, _, _)
Feed(ps, t, i) ==
  IF i >= Len(t) THEN ps
  ELSE LET close == RunEndNot(t, i, ">")
           isEnd == StartsAt(t, i, <<"<", "/">>) /\ close < Len(t)
           isStart == /\ t[i + 1] = "<"
                      /\ i + 1 < Len(t)
                      /\ IsLetter(t[i + 2])
                      /\ close < Len(t)
       IN  IF isEnd
           THEN Feed(HandleEndTag(ps, LowerCase(Strip(Slice(t, i + 2, close)))),
                     t, close + 1)
           ELSE IF isStart
           THEN Feed(HandleStartTag(ps, LowerCase(Slice(t, i + 1, TagNameEnd(t, i + 1)))),
                     t, close + 1)
           ELSE Feed(HandleData(ps, t[i + 1]), t, i + 1)

\* re.match(r'^[-:]+$', c)
IsRuleCell(c) == c # <<>> /\ \A k \in 1..Len(c) : c[k] \in {"-", ":"}

\* [c.strip() for c in stripped.strip("|").split("|")]
MdCells(line) ==
  LET parts == SplitChar(StripSet(Strip(line), {"|"}), "|")
  IN  [k \in 1..Len(parts) |-> Strip(parts[k])]

\* all(re.match(r'^[-:]+$', c) for c in cells if c)
IsSeparatorRow(cells) ==
  \A k \in 1..Len(cells) : cells[k] # <<>> => IsRuleCell(cells[k])

RECURSIVE _parse_md_table(_)
_parse_md_table(lines) ==
  IF lines = <<>> THEN <<>>
  ELSE LET cells == MdCells(Head(lines))
       IN  (IF IsSeparatorRow(cells) THEN <<>> ELSE <<cells>>)
           \o _parse_md_table(Tail(lines))

\* re.search(r'\w\s*\|', trimmed)
HasWordThenPipe(t) ==
  \E i \in 1..Len(t) :
    /\ IsWord(t[i])
    /\ LET j == RunEnd(t, i, WS) IN j < Len(t) /\ t[j + 1] = "|"

\* '|' in trimmed and (trimmed.startswith('|') or re.search(...))
IsTableRow(trimmed) ==
  /\ "|" \in Range(trimmed)
  /\ (StartsWith(trimmed, <<"|">>) \/ HasWordThenPipe(trimmed))

\* flush_md_table: the table of the buffered lines, if it has a row
FlushMdTable(elements, md_table_buf) ==
  LET rows == _parse_md_table(md_table_buf)
  IN  IF md_table_buf = <<>> \/ rows = <<>> THEN elements
      ELSE Append(elements, [type |-> "table", rows |-> rows, header_rows |-> {0}])

\* a blank line gets an empty paragraph (a plain "else" for "elif trimmed")
ClassifyLine_KeepsBlank(trimmed) ==
  IF StartsWith(trimmed, <<"#", "#", "#", " ">>)
  THEN <<[type |-> "heading", level |-> 3, text |-> Slice(trimmed, 4, Len(trimmed))]>>
  ELSE IF StartsWith(trimmed, <<"#", "#", " ">>)
  THEN <<[type |-> "heading", level |-> 2, text |-> Slice(trimmed, 3, Len(trimmed))]>>
  ELSE IF StartsWith(trimmed, <<"#", " ">>)
  THEN <<[type |-> "heading", level |-> 1, text |-> Slice(trimmed, 2, Len(trimmed))]>>
  ELSE <<[type |-> "paragraph", text |-> trimmed]>>

\* the heading / paragraph chain: the elements a line that is no table row
\* adds
ClassifyLine(trimmed) ==
  IF StartsWith(trimmed, <<"#", "#", "#", " ">>)
  THEN <<[type |-> "heading", level |-> 3, text |-> Slice(trimmed, 4, Len(trimmed))]>>
  ELSE IF StartsWith(trimmed, <<"#", "#", " ">>)
  THEN <<[type |-> "heading", level |-> 2, text |-> Slice(trimmed, 3, Len(trimmed))]>>
  ELSE IF StartsWith(trimmed, <<"#", " ">>)
  THEN <<[type |-> "heading", level |-> 1, text |-> Slice(trimmed, 2, Len(trimmed))]>>
  ELSE IF trimmed # <<>>
  THEN <<[type |-> "paragraph", text |-> trimmed]>>
  ELSE <<>>

\* "for line in lines" from line k on, then the final flush_md_table()
RECURSIVE ParseLines(_, _, _, _)
ParseLines(lines, k, md_table_buf, elements) ==
  IF k > Len(lines) THEN FlushMdTable(elements, md_table_buf)
  ELSE LET trimmed == Strip(lines[k])
       IN  IF IsTableRow(trimmed)
           THEN ParseLines(lines, k + 1, Append(md_table_buf, trimmed), elements)
           ELSE ParseLines(lines, k + 1, <<>>,
                           FlushMdTable(elements, md_table_buf) \o ClassifyLine(trimmed))

\* the elements an HTML table block adds
ParseHtmlTable(elements, part) ==
  LET parser == Feed(TableParserStart, part, 0)
  IN  IF parser.rows # <<>>
      THEN Append(elements, [type |-> "table", rows |-> parser.rows,
                             header_rows |-> parser.header_row_indices])
      ELSE elements

\* "for part in parts" from part k on
RECURSIVE ParseParts(_, _, _)
ParseParts(parts, k, elements) ==
  IF k > Len(parts) THEN elements
  ELSE IF IsHtmlTable(parts[k])
  THEN ParseParts(parts, k + 1, ParseHtmlTable(elements, parts[k]))
  ELSE ParseParts(parts, k + 1,
                  ParseLines(SplitChar(parts[k], NL), 1, <<>>, elements))

_parse_ocr_text(text) == ParseParts(SplitTables(text, 0), 1, <<>>)

(***************************************************************************)
(* Document Assembler: the runs _build_docx gives a paragraph              *)
(***************************************************************************)
\* the first offset >= i of "*" (twice when double) with no line break
\* before it, or -1: where the lazy ".*?" lets the closing marker match
RECURSIVE FindMarker(_, _, _)
FindMarker(t, i, double) ==
  IF i >= Len(t) \/ t[i + 1] = NL THEN -1
  ELSE IF StartsAt(t, i, IF double THEN <<"*", "*">> ELSE <<"*">>) THEN i
  ELSE FindMarker(t, i + 1, double)

\* the end of the match of \*\*.*?\*\*|\*.*?\* at offset i, or -1
EmphasisEnd(t, i) ==
  LET d == IF StartsAt(t, i, <<"*", "*">>) THEN FindMarker(t, i + 2, TRUE) ELSE -1
      e == IF StartsAt(t, i, <<"*">>) THEN FindMarker(t, i + 1, FALSE) ELSE -1
  IN  IF d >= 0 THEN d + 2
      ELSE IF e >= 0 THEN e + 1
      ELSE -1

\* re.split(r'(\*\*.*?\*\*|\*.*?\*)', text): text[from:] scanned from
\* offset i on
RECURSIVE SplitEmphasis(_, _, _)
SplitEmphasis(t, from, i) ==
  IF i >= Len(t) THEN <<Slice(t, from, Len(t))>>
  ELSE LET e == EmphasisEnd(t, i)
       IN  IF e > i
           THEN <<Slice(t, from, i), Slice(t, i, e)>> \o SplitEmphasis(t, e, e)
           ELSE SplitEmphasis(t, from, i + 1)

\* the run para.add_run gives part p
RunOf(p) ==
  IF StartsWith(p, <<"*", "*">>) /\ EndsWith(p, <<"*", "*">>)
  THEN [text |-> Slice(p, 2, Len(p) - 2), bold |-> TRUE, italic |-> FALSE]
  ELSE IF StartsWith(p, <<"*">>) /\ EndsWith(p, <<"*">>) /\ Len(p) > 2
  THEN [text |-> Slice(p, 1, Len(p) - 1), bold |-> FALSE, italic |-> TRUE]
  ELSE [text |-> p, bold |-> FALSE, italic |-> FALSE]

\* the runs of the paragraph built for text
ParagraphRuns(text) ==
  LET parts == SplitEmphasis(text, 0, 0)
  IN  [k \in 1..Len(parts) |-> RunOf(parts[k])]

\* n_cols = max(len(r) for r in rows) if rows else 0
MaxRowLen(rows) ==
  IF rows = <<>> THEN 0
  ELSE CHOOSE n \in {Len(rows[i]) : i \in 1..Len(rows)} :
         \A i \in 1..Len(rows) : Len(rows[i]) <= n

\* the cells of the table added for elem: the text of each, bold in a header
\* row; a cell its row has no text for stays empty
TableCells(elem) ==
  [i \in 1..Len(elem.rows) |->
     [j \in 1..MaxRowLen(elem.rows) |->
        IF j <= Len(elem.rows[i])
        THEN [text |-> elem.rows[i][j], bold |-> (i - 1) \in elem.header_rows]
        ELSE [text |-> <<>>, bold |-> FALSE]]]

\* what "for elem in elements" adds to the document for elem
AddElement(elem) ==
  IF elem.type = "heading"
  THEN <<[kind |-> "heading", level |-> elem.level, text |-> elem.text]>>
  ELSE IF elem.type = "paragraph"
  THEN <<[kind |-> "paragraph", runs |-> ParagraphRuns(elem.text)]>>
  ELSE IF MaxRowLen(elem.rows) = 0 THEN <<>>
  ELSE <<[kind |-> "table", cells |-> TableCells(elem)]>>

RECURSIVE AddElements(_)
AddElements(elements) ==
  IF elements = <<>> THEN <<>>
  ELSE AddElement(Head(elements)) \o AddElements(Tail(elements))

\* the decimal digits, by value
DigitChars == <<"0", "1", "2", "3", "4", "5", "6", "7", "8", "9">>

\* str(n) of a natural number
RECURSIVE NatDigits(_)
NatDigits(n) ==
  IF n < 10 THEN <<DigitChars[n + 1]>>
  ELSE Append(NatDigits(n \div 10), DigitChars[(n % 10) + 1])

\* str(n) of an int, as the f-string formats page.num
IntStr(n) == IF n < 0 THEN <<"-">> \o NatDigits(0 - n) ELSE NatDigits(n)

EmDash == "U+2014"

\* f"— {pages[idx].num} —"
FooterText(num) == <<EmDash, " ">> \o IntStr(num) \o <<" ", EmDash>>

\* DocxDocument(): an empty body in the template's single section, whose
\* footer is not written
NewDocument == [body |-> <<>>, sections |-> 1, footers |-> <<>>]

\* doc.add_heading(title, level=0)
TitleHeading(title) == [kind |-> "heading", level |-> 0, text |-> title]

\* doc.add_section(WD_SECTION_START.NEW_PAGE): the content so far is closed
\* as a section and a new last section begins
SectionBreak == [kind |-> "section_break"]

AddSection(doc) ==
  [doc EXCEPT !.body = Append(doc.body, SectionBreak),
              !.sections = doc.sections + 1]

\* a break before the second page only
BreaksBefore_SecondOnly(multi_page, idx) == multi_page /\ idx = 1

\* "if multi_page and idx > 0", for the 0-based index of a page
BreaksBefore(multi_page, idx) == multi_page /\ idx > 0

\* the footer shows a running counter of the sections
FooterNum_RunningCounter(pages_in, idx) == idx + 1

\* pages[idx].num, for the 0-based index of a section
FooterNum(pages_in, idx) == pages_in[idx + 1].num

\* "for idx, page in enumerate(pages)" from the 0-based index idx on
RECURSIVE AddPages(_, _, _, _)
AddPages(doc, pages_in, idx, multi_page) ==
  IF idx >= Len(pages_in) THEN doc
  ELSE LET started == IF BreaksBefore(multi_page, idx) THEN AddSection(doc)
                      ELSE doc
           content == AddElements(_parse_ocr_text(pages_in[idx + 1].text))
       IN  AddPages([started EXCEPT !.body = started.body \o content],
                    pages_in, idx + 1, multi_page)

\* "for idx, section in enumerate(doc.sections)": a footer of its own for
\* every section
WriteFooters(doc, pages_in) ==
  [doc EXCEPT !.footers =
     [k \in 1..doc.sections |-> FooterText(FooterNum(pages_in, k - 1))]]

_build_docx(title, pages_in) ==
  LET multi_page == Len(pages_in) > 1
      titled == IF multi_page
                THEN [NewDocument EXCEPT !.body = <<TitleHeading(title)>>]
                ELSE NewDocument
      filled == AddPages(titled, pages_in, 0, multi_page)
  IN  IF multi_page THEN WriteFooters(filled, pages_in) ELSE filled

(***************************************************************************)
(* The splitter alone: _split_image on an image taller than the window,    *)
(* one pass of its loop per step, for every small window H and overlap     *)
(* O < H and for the configured ones                                       *)
(***************************************************************************)
MaxWindow == 4
MaxHeight == 12

SplitInputs ==
  {[h |-> h, H |-> H, O |-> O] :
     h \in 2..MaxHeight, H \in 1..MaxWindow, O \in 0..(MaxWindow - 1)}
  \cup
  {[h |-> h, H |-> MAX_IMAGE_HEIGHT, O |-> SEGMENT_OVERLAP] :
     h \in {MAX_IMAGE_HEIGHT + 1, 2 * MAX_IMAGE_HEIGHT - SEGMENT_OVERLAP,
            2 * MAX_IMAGE_HEIGHT, 3 * MAX_IMAGE_HEIGHT}}

InitSplit ==
  /\ sp \in {[pc |-> "loop", h |-> i.h, H |-> i.H, O |-> i.O, st |-> SplitStart(i.h)] :
               i \in {x \in SplitInputs : x.h > x.H /\ x.O < x.H}}
  /\ pages = <<>>
  /\ req = [c \in AllClients |-> Idle]
  /\ nz = NormIdle
  /\ pr = ParseIdle

\* one pass of "while y < h"
SplitStep ==
  /\ sp.pc = "loop"
  /\ sp.st.running
  /\ sp' = [sp EXCEPT !.st = SplitIter(sp.st, sp.h, sp.H, sp.O)]
  /\ UNCHANGED <<pages, req, nz, pr>>

\* return segments
SplitReturn ==
  /\ sp.pc = "loop"
  /\ ~sp.st.running
  /\ sp' = [sp EXCEPT !.pc = "done"]
  /\ UNCHANGED <<pages, req, nz, pr>>

NextSplit == SplitStep \/ SplitReturn

SpecSplit == InitSplit /\ [][NextSplit]_vars

(***************************************************************************)
(* The normalizer alone: _postprocess applied to a text and then to its    *)
(* own output, for every text of up to MaxFragments fragments              *)
(***************************************************************************)
MaxFragments == 4

NormFragments ==
  { <<"$">>, <<BS>>, <<"a">>, <<NL>>, <<" ">>, Fence,
    <<"$", BS, "a", "l", "p", "h", "a", "$">>,
    LitFrac \o <<"1">> \o LitMid \o <<"2">> \o LitClose,
    LitCircled \o <<"3">> \o LitClose }

RECURSIVE Texts(_, _)
Texts(F, n) ==
  IF n = 0 THEN {<<>>}
  ELSE LET shorter == Texts(F, n - 1)
       IN  shorter \cup {t \o f : t \in shorter, f \in F}

InitNorm ==
  /\ nz \in {[pc |-> "input", x |-> t, y |-> <<>>, z |-> <<>>] :
               t \in Texts(NormFragments, MaxFragments)}
  /\ pages = <<>>
  /\ req = [c \in AllClients |-> Idle]
  /\ sp = SplitIdle
  /\ pr = ParseIdle

\* y = _postprocess(x)
Normalize ==
  /\ nz.pc = "input"
  /\ nz' = [nz EXCEPT !.pc = "once", !.y = _postprocess(nz.x)]
  /\ UNCHANGED <<pages, req, sp, pr>>

\* z = _postprocess(y)
NormalizeAgain ==
  /\ nz.pc = "once"
  /\ nz' = [nz EXCEPT !.pc = "twice", !.z = _postprocess(nz.y)]
  /\ UNCHANGED <<pages, req, sp, pr>>

NextNorm == Normalize \/ NormalizeAgain

SpecNorm == InitNorm /\ [][NextNorm]_vars

(***************************************************************************)
(* The parser alone: the elements and the document content _build_docx     *)
(* gets from one page's text, for every text of up to MaxLines lines       *)
(***************************************************************************)
MaxLines == 3

ParseLineSet ==
  { <<"#", " ", "T", "i", "t", "l", "e">>,
    <<>>,
    <<"S", "o", "m", "e", " ", "*", "*", "b", "o", "l", "d", "*", "*", " ",
      "t", "e", "x", "t", ".">>,
    <<"|", " ", "a", " ", "|", " ", "b", " ", "|">>,
    <<"|", "-", "-", "-", "|", "-", "-", "-", "|">>,
    <<"|", " ", "c", " ", "|", " ", "d", " ", "|">>,
    <<"a", " ", "|", " ", "b">>,
    <<"-", "-", "-", " ", "|", " ", "-", "-", "-">>,
    <<"c", " ", "|", " ", "d">>,
    <<"#", "#", " ", "a">>,
    <<" ", "#", "#", "#", " ", "a", " ">>,
    <<"#", "#", "#", "#", " ", "a">>,
    TableOpen \o <<">", "<", "t", "r", ">", "<", "t", "h", ">", "a",
                   "<", "/", "t", "h", ">", "<", "/", "t", "r", ">">>
      \o TableClose }

\* the texts of 1..n lines of L
RECURSIVE LineTexts(_, _)
LineTexts(L, n) ==
  IF n = 1 THEN L
  ELSE LET shorter == LineTexts(L, n - 1)
       IN  shorter \cup {t \o <<NL>> \o l : t \in shorter, l \in L}

InitParse ==
  /\ pr \in {[pc |-> "input", text |-> t, elements |-> <<>>, body |-> <<>>] :
               t \in LineTexts(ParseLineSet, MaxLines)}
  /\ pages = <<>>
  /\ req = [c \in AllClients |-> Idle]
  /\ sp = SplitIdle
  /\ nz = NormIdle

\* elements = _parse_ocr_text(page.text), then the loop over the elements
BuildPage ==
  /\ pr.pc = "input"
  /\ \E elements \in {_parse_ocr_text(pr.text)} :
       pr' = [pr EXCEPT !.pc = "built",
                        !.elements = elements,
                        !.body = AddElements(elements)]
  /\ UNCHANGED <<pages, req, sp, nz>>

NextParse == BuildPage

SpecParse == InitParse /\ [][NextParse]_vars

(***************************************************************************)
(* The export: _build_docx on a title and up to MaxExportPages pages, of   *)
(* any page numbers                                                        *)
(***************************************************************************)
MaxExportPages == 3

ExportNums == {1, 2, 12}

ExportTexts ==
  { <<>>,
    <<"#", " ", "a">>,
    <<"a", NL, "*", "b", "*">> }

ExportTitles == { <<"T">> }

ExportPages == {[num |-> n, text |-> t] : n \in ExportNums, t \in ExportTexts}

\* the sequences of at most n elements of S
RECURSIVE ListsUpTo(_, _)
ListsUpTo(S, n) ==
  IF n = 0 THEN {<<>>}
  ELSE LET shorter == ListsUpTo(S, n - 1)
       IN  shorter \cup {Append(l, x) : l \in shorter, x \in S}

InitDocx ==
  /\ pr \in {[pc |-> "request", title |-> t, pages |-> ps, doc |-> NewDocument] :
               t \in ExportTitles, ps \in ListsUpTo(ExportPages, MaxExportPages)}
  /\ pages = <<>>
  /\ req = [c \in AllClients |-> Idle]
  /\ sp = SplitIdle
  /\ nz = NormIdle

\* buf = _build_docx(title, req.pages)
ExportDocx ==
  /\ pr.pc = "request"
  /\ pr' = [pr EXCEPT !.pc = "exported",
                      !.doc = _build_docx(pr.title, pr.pages)]
  /\ UNCHANGED <<pages, req, sp, nz>>

NextDocx == ExportDocx

SpecDocx == InitDocx /\ [][NextDocx]_vars

(***************************************************************************)
(* One paragraph: the runs _build_docx adds for a paragraph element, for   *)
(* every text of up to MaxSpanLen characters and markers                   *)
(***************************************************************************)
MaxSpanLen == 6

SpanFragments == { <<"a">>, <<"b">>, <<" ">>, <<"*">> }

InitSpans ==
  /\ pr \in {[pc |-> "paragraph", text |-> t, runs |-> <<>>] :
               t \in Texts(SpanFragments, MaxSpanLen)}
  /\ pages = <<>>
  /\ req = [c \in AllClients |-> Idle]
  /\ sp = SplitIdle
  /\ nz = NormIdle

\* the "paragraph" branch of the loop over the elements
AddParagraph ==
  /\ pr.pc = "paragraph"
  /\ \E item \in {AddElement([type |-> "paragraph", text |-> pr.text])[1]} :
       pr' = [pr EXCEPT !.pc = "added", !.runs = item.runs]
  /\ UNCHANGED <<pages, req, sp, nz>>

NextSpans == AddParagraph

SpecSpans == InitSpans /\ [][NextSpans]_vars

(***************************************************************************)
(* Path guard: _safe_doc_path and get_image                                *)
(*                                                                         *)
(* A path is [absolute, segs]: whether it starts at the root, and its      *)
(* names in order (POSIX paths; no name is a symbolic link).               *)
(***************************************************************************)
Slash == "/"
DotDot == <<".", ".">>

IsPathName(seg) == seg # <<>> /\ seg # <<".">>

\* Path(s): empty names and "." are dropped
ParsePath(s) ==
  [absolute |-> s # <<>> /\ s[1] = Slash,
   segs |-> SelectSeq(SplitChar(s, Slash), IsPathName)]

\* base / other
JoinPath(base, other) ==
  IF other.absolute THEN other
  ELSE [absolute |-> base.absolute, segs |-> base.segs \o other.segs]

\* the names left when every ".." has removed the name before it (none at
\* the root)
RECURSIVE Collapse(_, _)
Collapse(segs, out) ==
  IF segs = <<>> THEN out
  ELSE IF Head(segs) = DotDot
  THEN Collapse(Tail(segs), IF out = <<>> THEN out ELSE SubSeq(out, 1, Len(out) - 1))
  ELSE Collapse(Tail(segs), Append(out, Head(segs)))

\* the directory the server runs in
WorkDir == << <<"a", "p", "p">> >>

\* path.resolve()
Resolve(path) ==
  [absolute |-> TRUE,
   segs |-> Collapse(IF path.absolute THEN path.segs ELSE WorkDir \o path.segs, <<>>)]

\* str(path) of a resolved path
PathStr(path) == <<Slash>> \o Join(path.segs, <<Slash>>)

UploadsName == <<"u", "p", "l", "o", "a", "d", "s">>

\* UPLOAD_DIR = Path("uploads")
UPLOAD_DIR == ParsePath(UploadsName)

\* raise HTTPException(403, detail)
Forbidden(detail) == [status |-> 403, detail |-> detail]

SafePath(path) == [status |-> 200, path |-> path]

\* the test "not str(path).startswith(str(directory))"
EscapesPrefix(path, directory) == ~StartsWith(PathStr(path), PathStr(directory))

_safe_doc_path(doc_id, filename) ==
  LET doc_dir == Resolve(JoinPath(UPLOAD_DIR, ParsePath(doc_id)))
      file_path == Resolve(JoinPath(doc_dir, ParsePath(filename)))
  IN  IF EscapesPrefix(doc_dir, Resolve(UPLOAD_DIR))
      THEN Forbidden("Invalid document ID")
      ELSE IF filename # <<>>
      THEN IF EscapesPrefix(file_path, doc_dir)
           THEN Forbidden("Invalid filename")
           ELSE SafePath(file_path)
      ELSE SafePath(doc_dir)

MaxPathLen == 4

PathFragments == { DotDot, <<Slash>>, UploadsName, <<"d">>, <<"x">> }

PathNames == Texts(PathFragments, MaxPathLen)

DocIdChoices == { <<"d">>, DotDot, <<>> }

FilenameChoices ==
  { <<>>, <<"x">>, DotDot \o <<Slash, "d", "x">>, <<Slash, "x">> }

\* the request of a client for get_image(doc_id, filename), answered; what
\* _safe_doc_path gave is kept beside the response as history
ImageRequest(doc_id, filename, guarded, response) ==
  [pc |-> "done", kind |-> "image", layout |-> TRUE, page |-> 0,
   inv |-> NoInvocation, results |-> <<>>, invs |-> <<>>,
   response |-> Some(response), doc_id |-> doc_id, filename |-> filename,
   guarded |-> guarded]

\* GET /api/images/{doc_id}/{filename}; exists tells whether the file is
\* there
GetImage(c, doc_id, filename, exists) ==
  /\ req[c].pc = "idle"
  /\ \E guarded \in {_safe_doc_path(doc_id, filename)} :
       req' = [req EXCEPT ![c] =
         ImageRequest(doc_id, filename, guarded,
           IF guarded.status = 403 THEN guarded
           ELSE IF ~exists THEN [status |-> 404, detail |-> "Image not found"]
           ELSE [status |-> 200, file_path |-> guarded.path])]
  /\ UNCHANGED <<pages, sp, nz, pr>>

InitPath ==
  /\ pages = <<>>
  /\ req = [c \in AllClients |-> Idle]
  /\ sp = SplitIdle
  /\ nz = NormIdle
  /\ pr = ParseIdle

NextPath ==
  \/ \E doc_id \in PathNames, filename \in FilenameChoices, exists \in BOOLEAN :
       GetImage(1, doc_id, filename, exists)
  \/ \E doc_id \in DocIdChoices, filename \in PathNames, exists \in BOOLEAN :
       GetImage(1, doc_id, filename, exists)
  \/ Return(1)

SpecPath == InitPath /\ [][NextPath]_vars

(***************************************************************************)
(* Properties of the OCR pipeline                                          *)
(***************************************************************************)
\* the invocations a state remembers: the one of a single-page request, the
\* one in flight and the finished ones of a request over all pages, each
\* with its client, the index of its page and, once there is one, the entry
\* of the page in the results
Observed ==
  {[c |-> c, page |-> req[c].page, inv |-> req[c].inv, entry |-> None] :
     c \in {d \in AllClients : req[d].inv.status # "none"}}
  \cup
  UNION {{[c |-> c, page |-> j, inv |-> req[c].invs[j],
           entry |-> Some(req[c].results[j])] :
            j \in {i \in 1..Len(req[c].invs) : req[c].invs[i].status # "none"}} :
         c \in AllClients}

DetectorFailedIn(inv) == inv.det # None /\ ~inv.det[1].ok
PageUnset(page) ==
  page.ocr_text = None /\ page.ocr_regions = None /\ page.ocr_time = None
IsErrorEntry(e) ==
  "error" \in DOMAIN e /\ e.text = None /\ e.regions = <<>> /\ e.time = None

\* C1 as claimed: when ocr_all_pages has a page's engine call fail after
\* other units of the page were recognised, the page's entry keeps the texts
\* of those units (its text is set and its regions hold them) instead of
\* the page being aborted.
C1_PartialTextsRetained ==
  \A o \in Observed :
    (o.entry # None /\ o.inv.raised_by = "engine" /\ o.inv.replies >= 2)
      => /\ o.entry[1].text # None
         /\ Len(o.entry[1].regions) = Len(o.inv.regions)

\* C1 as amended: when ocr_all_pages has an engine call of a page fail, the
\* page is aborted (its entry has text None, no regions, no time and an
\* error: the texts of the units already recognised are dropped), while the
\* request is not: results holds one entry per page visited, in page order,
\* and a page that was recognised keeps its text and regions in its entry.
C1_PageAbortedRequestContinues ==
  \A c \in AllClients :
    LET rq == req[c]
    IN  rq.kind = "all" =>
          /\ Len(rq.results) = Len(rq.invs)
          /\ rq.pc = "done" =>
               /\ rq.response = Some(AllResponse(rq.results))
               /\ Len(rq.results) = Len(pages)
          /\ \A j \in 1..Len(rq.results) :
               /\ rq.results[j].page_num = pages[j].num
               /\ rq.invs[j].raised_by = "engine" => IsErrorEntry(rq.results[j])
               /\ rq.invs[j].status = "returned" =>
                    /\ rq.results[j].text = Some(rq.invs[j].text)
                    /\ rq.results[j].regions = rq.invs[j].regions

\* a request over all pages has answered: on one page the engine failed
\* after recognising a unit, another page was recognised with text
C1_Witness ==
  \E c \in AllClients :
    /\ req[c].kind = "all" /\ req[c].pc = "done"
    /\ \E j, k \in 1..Len(req[c].invs) :
         /\ req[c].invs[j].raised_by = "engine"
         /\ req[c].invs[j].replies >= 2
         /\ req[c].invs[j].unit_texts[1] # <<>>
         /\ req[c].invs[k].status = "returned"
         /\ req[c].invs[k].text # <<>>

\* C2: when the detector fails for a page, that invocation makes no engine
\* call, the failure reaches the caller (status 500 of ocr_single_page, an
\* error entry of ocr_all_pages) and nothing is stored for the page.
C2_DetectorFailureAborts ==
  \A o \in Observed :
    DetectorFailedIn(o.inv) =>
      /\ o.inv.status = "raised"
      /\ o.inv.raised_by = "detector"
      /\ o.inv.calls = <<>>
      /\ o.inv.replies = 0
      /\ PageUnset(pages[o.page])
      /\ IF o.entry = None
         THEN /\ req[o.c].pc = "done"
              /\ req[o.c].response # None
              /\ req[o.c].response[1].status = 500
         ELSE IsErrorEntry(o.entry[1])

\* a request over all pages has answered: the detector failed on one page
\* and another page was recognised
C2_Witness ==
  \E c \in AllClients :
    /\ req[c].kind = "all" /\ req[c].pc = "done"
    /\ \E j, k \in 1..Len(req[c].invs) :
         /\ DetectorFailedIn(req[c].invs[j])
         /\ req[c].invs[k].status = "returned"

\* the regions of a detector output that the skip-set leaves
Surviving(det) ==
  {det.raw[k] : k \in {i \in 1..Len(det.raw) : det.raw[i].label \notin LayoutSkipLabels}}

Stripped(region) == [label |-> region.label, bbox |-> region.bbox]

\* C3: when the detector yields n >= 1 surviving regions, a successful
\* ocr_image_with_layout returns exactly n regions, the i-th (from 0) with
\* idx i, which are the surviving regions in ascending (y1, x1) order.
C3_RegionsInReadingOrder ==
  \A o \in Observed :
    (/\ o.inv.status = "returned"
     /\ o.inv.det # None
     /\ Surviving(o.inv.det[1]) # {})
      => LET rs == o.inv.regions
             n == Cardinality(Surviving(o.inv.det[1]))
         IN  /\ Len(rs) = n
             /\ \A i \in 1..n : rs[i].idx = i - 1
             /\ {Stripped(rs[i]) : i \in 1..n} = Surviving(o.inv.det[1])
             /\ \A i, j \in 1..n :
                  i < j =>
                    \/ rs[i].bbox[2] < rs[j].bbox[2]
                    \/ rs[i].bbox[2] = rs[j].bbox[2] /\ rs[i].bbox[1] <= rs[j].bbox[1]

\* the detector gave a skipped region and two regions out of reading order,
\* and the invocation returned with one of them recognised as empty
C3_Witness ==
  \E o \in Observed :
    /\ o.inv.status = "returned"
    /\ o.inv.det # None
    /\ Len(o.inv.det[1].raw) > Cardinality(Surviving(o.inv.det[1]))
    /\ Len(o.inv.regions) >= 2
    /\ o.inv.regions[1] # Stripped(SelectSeq(o.inv.det[1].raw, KeepLabel)[1])
    /\ \E i \in 1..Len(o.inv.regions) : o.inv.regions[i].text = <<>>

\* the non-empty texts of ts joined by one blank line, built from the left
RECURSIVE JoinedFrom(_, _, _)
JoinedFrom(ts, k, acc) ==
  IF k > Len(ts) THEN acc
  ELSE IF ts[k] = <<>> THEN JoinedFrom(ts, k + 1, acc)
  ELSE IF acc = <<>> THEN JoinedFrom(ts, k + 1, ts[k])
  ELSE JoinedFrom(ts, k + 1, acc \o <<NL, NL>> \o ts[k])

\* C4: the combined text of a page is the non-empty normalized texts of its
\* units, in processing order, joined by one blank line; a region whose text
\* is empty adds nothing to it and stays in the regions list with text "".
C4_CombinedText ==
  \A o \in Observed :
    o.inv.status = "returned" =>
      /\ Len(o.inv.unit_texts) = Len(o.inv.units)
      /\ o.inv.text = JoinedFrom(o.inv.unit_texts, 1, <<>>)
      /\ o.inv.mode = "regions" =>
           /\ Len(o.inv.regions) = Len(o.inv.units)
           /\ \A i \in 1..Len(o.inv.regions) :
                o.inv.regions[i].text = o.inv.unit_texts[i]
      /\ o.inv.mode = "whole" => o.inv.regions = <<>>

\* a page of several units returned, one unit empty and one not
C4_Witness ==
  \E o \in Observed :
    /\ o.inv.status = "returned"
    /\ o.inv.mode = "regions"
    /\ \E i, j \in 1..Len(o.inv.regions) :
         /\ i < j
         /\ o.inv.regions[i].text = <<>>
         /\ o.inv.regions[j].text # <<>>
    /\ o.inv.text # <<>>

\* C5: within one page's processing the engine calls are issued one at a
\* time, in the order of the units (the Region Selector's order, or the
\* chunks from top to bottom), one call per unit, and no call follows a
\* failed one.
C5_SequentialCallsNoRetry ==
  \A o \in Observed :
    LET inv == o.inv
        sent == Len(inv.calls)
    IN  /\ sent <= Len(inv.units)
        /\ inv.calls = SubSeq(inv.units, 1, sent)
        /\ sent - inv.replies = (IF inv.status = "await" THEN 1 ELSE 0)
        /\ inv.status = "returned" => inv.calls = inv.units
        /\ inv.mode = "regions" =>
             inv.units = [k \in 1..Len(inv.raw_regions) |-> CropUnit(inv.raw_regions[k])]
        /\ inv.mode = "whole" =>
             \A k \in 1..(Len(inv.units) - 1) :
               inv.units[k].box[2] < inv.units[k + 1].box[2]

\* the engine failed on the first of several units
C5_Witness ==
  \E o \in Observed :
    /\ o.inv.raised_by = "engine"
    /\ o.inv.replies = 1
    /\ Len(o.inv.units) >= 2

\* C7: when the detector returns no surviving region and the image is not
\* taller than MAX_IMAGE_HEIGHT, ocr_image_with_layout makes exactly one
\* engine call, on the whole image, never calls the splitter, and returns
\* no regions.
C7_OneCallOnWholeImage ==
  \A o \in Observed :
    (/\ o.inv.det # None
     /\ o.inv.det[1].ok
     /\ Surviving(o.inv.det[1]) = {}
     /\ pages[o.page].img.h <= MAX_IMAGE_HEIGHT)
      => /\ o.inv.calls = <<[src |-> "whole",
                             box |-> <<0, 0, pages[o.page].img.w, pages[o.page].img.h>>]>>
         /\ o.inv.split_calls = 0
         /\ o.inv.regions = <<>>

\* such an invocation has returned, the detector having reported only a
\* region of the skip-set
C7_Witness ==
  \E o \in Observed :
    /\ o.inv.status = "returned"
    /\ o.inv.det # None
    /\ o.inv.det[1].ok
    /\ o.inv.det[1].raw # <<>>
    /\ Surviving(o.inv.det[1]) = {}
    /\ pages[o.page].img.h <= MAX_IMAGE_HEIGHT

\* C6: for h > H and 0 <= O < H, _split_image terminates (it makes no more
\* passes than the image has rows) and returns segments that start at row
\* 0, end at row h, are at most H high, cover every row of [0, h), and
\* overlap their successor by exactly O rows (the last pair by O or more).
C6_SplitCoversWithOverlap ==
  sp.pc # "idle" =>
    LET segs == sp.st.segments
        n == Len(segs)
    IN  /\ n <= sp.h
        /\ sp.st.running => sp.st.y < sp.h
        /\ sp.pc = "done" =>
             /\ n >= 1
             /\ segs[1][1] = 0
             /\ segs[n][2] = sp.h
             /\ \A k \in 1..n :
                  segs[k][1] < segs[k][2] /\ segs[k][2] - segs[k][1] <= sp.H
             /\ \A row \in 0..(sp.h - 1) :
                  \E k \in 1..n : segs[k][1] <= row /\ row < segs[k][2]
             /\ \A k \in 1..(n - 2) : segs[k][2] - segs[k + 1][1] = sp.O
             /\ n >= 2 => segs[n - 1][2] - segs[n][1] >= sp.O

\* the split has returned three or more segments that overlap, the last one
\* shorter than the window
C6_Witness ==
  /\ sp.pc = "done"
  /\ sp.O > 0
  /\ Len(sp.st.segments) >= 3
  /\ LET last == sp.st.segments[Len(sp.st.segments)]
     IN  last[2] - last[1] < sp.H

\* C8: _postprocess is idempotent: applied to its own output it changes
\* nothing.
C8_PostprocessIdempotent ==
  nz.pc = "twice" => nz.z = nz.y

(***************************************************************************)
(* Properties of the parser                                                *)
(***************************************************************************)
TextLines(text) == SplitChar(text, NL)

\* a row of a markdown table, with or without the outer pipes: cells that
\* are neither empty nor dashes and colons
IsDataLine(line) ==
  /\ "|" \in Range(line)
  /\ \A k \in 1..Len(MdCells(line)) :
       MdCells(line)[k] # <<>> /\ ~IsRuleCell(MdCells(line)[k])

\* the rule row of a markdown table, with or without the outer pipes
IsRuleLine(line) ==
  /\ "|" \in Range(line)
  /\ \A k \in 1..Len(MdCells(line)) : IsRuleCell(MdCells(line)[k])

\* a header row, a rule row, then data rows
IsMarkdownTable(text) ==
  LET lines == TextLines(text)
  IN  /\ Len(lines) >= 3
      /\ IsRuleLine(lines[2])
      /\ \A k \in (1..Len(lines)) \ {2} : IsDataLine(lines[k])

\* the rows of a markdown table: its lines but the rule row
TableRowsOf(text) ==
  LET lines == TextLines(text)
  IN  [k \in 1..(Len(lines) - 1) |->
         MdCells(lines[IF k = 1 THEN 1 ELSE k + 1])]

\* C9: a markdown table written as consecutive lines (header row, rule row,
\* data rows, with or without leading and trailing pipes) is parsed into
\* exactly one Table element, whose rows are the lines but the rule row, in
\* order, and whose header_rows is {0}.
C9_MarkdownTableIsOneTable ==
  (pr.pc = "built" /\ IsMarkdownTable(pr.text)) =>
    pr.elements = <<[type |-> "table", rows |-> TableRowsOf(pr.text),
                     header_rows |-> {0}]>>

\* the element the line-by-line contract gives a non-blank line: a heading
\* of level k when the trimmed line is k '#' (k in 1..3) and a space, then
\* the heading's text; a paragraph of the trimmed line otherwise
ExpectedElement(line) ==
  LET t == Strip(line)
      k == RunEnd(t, 0, {"#"})
  IN  IF k \in 1..3 /\ k < Len(t) /\ t[k + 1] = " "
      THEN [type |-> "heading", level |-> k, text |-> Slice(t, k + 1, Len(t))]
      ELSE [type |-> "paragraph", text |-> t]

IsNonBlank(line) == Strip(line) # <<>>

ExpectedElements(text) ==
  LET kept == SelectSeq(TextLines(text), IsNonBlank)
  IN  [k \in 1..Len(kept) |-> ExpectedElement(kept[k])]

\* no line is a table row and there is no HTML table block
HasNoTableRows(text) ==
  /\ Len(SplitTables(text, 0)) = 1
  /\ \A k \in 1..Len(TextLines(text)) : ~IsTableRow(Strip(TextLines(text)[k]))

TitleExample ==
  <<"#", " ", "T", "i", "t", "l", "e", NL, NL,
    "S", "o", "m", "e", " ", "*", "*", "b", "o", "l", "d", "*", "*", " ",
    "t", "e", "x", "t", ".">>

TitleExampleElements ==
  <<[type |-> "heading", level |-> 1, text |-> <<"T", "i", "t", "l", "e">>],
    [type |-> "paragraph",
     text |-> <<"S", "o", "m", "e", " ", "*", "*", "b", "o", "l", "d", "*", "*",
                " ", "t", "e", "x", "t", ".">>]>>

TitleExampleRuns ==
  <<[text |-> <<"S", "o", "m", "e", " ">>, bold |-> FALSE, italic |-> FALSE],
    [text |-> <<"b", "o", "l", "d">>, bold |-> TRUE, italic |-> FALSE],
    [text |-> <<" ", "t", "e", "x", "t", ".">>, bold |-> FALSE, italic |-> FALSE]>>

\* C10: for a text without table rows, _parse_ocr_text gives one element per
\* non-blank line, in line order, and none for a blank line: Heading(k, text
\* after the prefix) for a trimmed line of k '#' (k in 1..3) and a space,
\* Paragraph(trimmed line) for any other; "# Title\n\nSome **bold** text."
\* gives [Heading(1, "Title"), Paragraph("Some **bold** text.")], and the
\* paragraph the spans ("Some ", plain), ("bold", bold), (" text.", plain).
C10_HeadingsAndParagraphs ==
  (pr.pc = "built" /\ HasNoTableRows(pr.text)) =>
    /\ pr.elements = ExpectedElements(pr.text)
    /\ pr.text = TitleExample =>
         /\ pr.elements = TitleExampleElements
         /\ Len(pr.body) = 2
         /\ pr.body[2].kind = "paragraph"
         /\ pr.body[2].runs = TitleExampleRuns

\* the example's text has been parsed: a heading, a skipped blank line and a
\* paragraph of three spans
C10_Witness ==
  /\ pr.pc = "built"
  /\ pr.text = TitleExample
  /\ HasNoTableRows(pr.text)
  /\ Len(pr.elements) = 2
  /\ Len(TextLines(pr.text)) = 3
  /\ Len(pr.body[2].runs) = 3

(***************************************************************************)
(* Properties of the export                                                *)
(***************************************************************************)
IsBreak(item) == item.kind = "section_break"

IsTitle(item) == item.kind = "heading" /\ item.level = 0

\* the positions of the section breaks of a body, ascending
BreakPositions(body) == {k \in 1..Len(body) : IsBreak(body[k])}

\* the content a page's text gives on its own
PageContent(page) == AddElements(_parse_ocr_text(page.text))

\* the items of body strictly between positions a and b
Between(body, a, b) == SubSeq(body, a + 1, b - 1)

\* the position of the i-th break of body (0 for i = 0, Len + 1 past the
\* last one)
BreakAt(body, i) ==
  IF i = 0 THEN 0
  ELSE IF i > Cardinality(BreakPositions(body)) THEN Len(body) + 1
  ELSE CHOOSE k \in BreakPositions(body) :
         Cardinality({j \in BreakPositions(body) : j <= k}) = i

\* C11: an export of n pages has a title heading iff n > 1 and exactly
\* max(n-1, 0) section breaks: one immediately before the content of each
\* page after the first, none before the first page's content.
C11_TitleAndSectionBreaks ==
  pr.pc = "exported" =>
    LET n == Len(pr.pages)
        body == pr.doc.body
        titled == body # <<>> /\ IsTitle(body[1])
        rest == IF titled THEN Tail(body) ELSE body
    IN  /\ titled <=> n > 1
        /\ (\E k \in 1..Len(body) : IsTitle(body[k])) <=> n > 1
        /\ Cardinality(BreakPositions(body)) = (IF n > 1 THEN n - 1 ELSE 0)
        /\ n = 0 => rest = <<>>
        /\ \A i \in 1..n :
             Between(rest, BreakAt(rest, i - 1), BreakAt(rest, i))
               = PageContent(pr.pages[i])

\* a 3-page export with content on every page, and so two breaks
C11_Witness ==
  /\ pr.pc = "exported"
  /\ Len(pr.pages) = 3
  /\ \A i \in 1..3 : PageContent(pr.pages[i]) # <<>>
  /\ Cardinality(BreakPositions(pr.doc.body)) = 2
  /\ IsTitle(pr.doc.body[1])

\* the number a footer text shows: the decimal numeral between the dashes
RECURSIVE NumeralValue(_)
NumeralValue(d) ==
  IF d = <<>> THEN 0
  ELSE 10 * NumeralValue(SubSeq(d, 1, Len(d) - 1)) + DigitVal(d[Len(d)])

FooterShows(footer) == NumeralValue(SubSeq(footer, 3, Len(footer) - 2))

IsFooter(footer) ==
  /\ Len(footer) >= 5
  /\ SubSeq(footer, 1, 2) = <<EmDash, " ">>
  /\ SubSeq(footer, Len(footer) - 1, Len(footer)) = <<" ", EmDash>>
  /\ \A k \in 3..(Len(footer) - 2) : footer[k] \in Digits

\* C12: an export of n > 1 pages has exactly n sections and the footer of
\* the i-th section shows the num of the i-th input page, whatever the page
\* numbers are; an export of one page has no footer written.
C12_FootersShowPageNums ==
  pr.pc = "exported" =>
    LET n == Len(pr.pages)
    IN  /\ n > 1 =>
             /\ pr.doc.sections = n
             /\ Len(pr.doc.footers) = n
             /\ \A i \in 1..n :
                  /\ IsFooter(pr.doc.footers[i])
                  /\ FooterShows(pr.doc.footers[i]) = pr.pages[i].num
        /\ n = 1 => pr.doc.footers = <<>>

\* a 3-page export whose page numbers repeat, descend and leave a gap
C12_Witness ==
  /\ pr.pc = "exported"
  /\ Len(pr.pages) = 3
  /\ pr.pages[1].num = 12
  /\ pr.pages[2].num = 2
  /\ pr.pages[3].num = 12
  /\ Len(pr.doc.footers) = 3

(***************************************************************************)
(* Properties of the page store                                            *)
(***************************************************************************)
IsStored(page) == page.ocr_text # None

\* what a request answers for a page it found stored
IsCachedAnswer(answer, text, page) ==
  /\ answer.cached = TRUE
  /\ answer.page_num = page.num
  /\ text = page.ocr_text[1]
  /\ answer.regions = (IF page.ocr_regions = None THEN <<>> ELSE page.ocr_regions[1])
  /\ answer.time = page.ocr_time

\* no detector call and no engine call was made
MadeNoCall(inv) == inv.det = None /\ inv.calls = <<>> /\ inv.status = "none"

\* the pages a step of request c has added to its results, but the page it
\* was recognising when the step began
NewlyVisited(c) ==
  {j \in (Len(req[c].results) + 1)..Len(req[c].results') :
     ~(req[c].pc = "await" /\ j = req[c].page)}

\* C13: a request that comes to a page whose ocr_text is stored answers
\* the stored text and regions, flagged cached, makes no detector or engine
\* call for the page and leaves what is stored for it unchanged; a run that
\* failed stores nothing, and a request that comes to a page with nothing
\* stored runs OCR for it.
C13_StoredOutcomeReused ==
  [][\A c \in AllClients :
       /\ (req[c].pc = "idle" /\ req[c]' # req[c]
             /\ req[c].kind' = "single" /\ req[c].page' # 0) =>
            LET k == req[c].page'
            IN  IF IsStored(pages[k])
                THEN /\ req[c].pc' = "done"
                     /\ req[c].response' # None
                     /\ req[c].response'[1].status = 200
                     /\ IsCachedAnswer(req[c].response'[1],
                                       req[c].response'[1].text, pages[k])
                     /\ MadeNoCall(req[c].inv')
                     /\ pages' = pages
                ELSE ~MadeNoCall(req[c].inv')
       /\ req[c].kind' = "all" =>
            \A j \in NewlyVisited(c) :
              IF IsStored(pages[j])
              THEN /\ req[c].results'[j].text # None
                   /\ IsCachedAnswer(req[c].results'[j],
                                     req[c].results'[j].text[1], pages[j])
                   /\ MadeNoCall(req[c].invs'[j])
                   /\ pages'[j] = pages[j]
              ELSE ~MadeNoCall(req[c].invs'[j])
       /\ (req[c].pc = "await" /\ req[c]' # req[c]) =>
            LET k == req[c].page
                inv == IF req[c].kind = "single" THEN req[c].inv'
                       ELSE IF Len(req[c].invs') >= k THEN req[c].invs'[k]
                       ELSE req[c].inv'
            IN  inv.status = "raised" => pages'[k] = pages[k]]_vars

\* a page was recognised and stored with a region, and a request for it has
\* then been answered from the store
C13_Witness ==
  \E c \in AllClients :
    /\ req[c].kind = "single" /\ req[c].pc = "done"
    /\ req[c].response # None
    /\ req[c].response[1].status = 200
    /\ req[c].response[1].cached = TRUE
    /\ req[c].response[1].regions # <<>>
    /\ IsStored(pages[req[c].page])

(***************************************************************************)
(* Properties of the paragraph runs                                        *)
(***************************************************************************)
IsEmphasised(run) == run.bold \/ run.italic

\* the text of a run inside the delimiters of its emphasis
Rewrapped(run) ==
  IF run.bold THEN <<"*", "*">> \o run.text \o <<"*", "*">>
  ELSE IF run.italic THEN <<"*">> \o run.text \o <<"*">>
  ELSE run.text

RECURSIVE ConcatRuns(_)
ConcatRuns(runs) ==
  IF runs = <<>> THEN <<>>
  ELSE Rewrapped(Head(runs)) \o ConcatRuns(Tail(runs))

\* no two markers of the text have a character other than a marker
\* somewhere between them: no marker closes around some text
HasNoClosedMarker(text) ==
  \A i, j \in 1..Len(text) :
    (i < j /\ text[i] = "*" /\ text[j] = "*") =>
      \A k \in (i + 1)..(j - 1) : text[k] = "*"

\* C14: span splitting loses no text on malformed emphasis: no bold or
\* italic span has empty text, a text none of whose markers closes around
\* some text is kept whole in plain spans, and the span texts, each emphasised
\* one put back between its delimiters, make up the paragraph text.
C14_MalformedEmphasisKept ==
  pr.pc = "added" =>
    /\ \A k \in 1..Len(pr.runs) :
         IsEmphasised(pr.runs[k]) => pr.runs[k].text # <<>>
    /\ HasNoClosedMarker(pr.text) =>
         \A k \in 1..Len(pr.runs) : ~IsEmphasised(pr.runs[k])
    /\ ConcatRuns(pr.runs) = pr.text

(***************************************************************************)
(* Properties of concurrent requests                                       *)
(***************************************************************************)
\* request c is between the start and the end of an OCR run for page k
RunsOcrFor(c, k) == req[c].pc = "await" /\ req[c].page = k

\* C15: of the concurrent requests for a page with nothing stored, at most
\* one runs the detector and the engine for the page, and a page's ocr_text,
\* once stored, is never overwritten.
C15_OneRunPerPage ==
  /\ [](\A k \in 1..Len(pages) :
          \A c, d \in AllClients :
            (RunsOcrFor(c, k) /\ RunsOcrFor(d, k)) => c = d)
  /\ [][\A k \in 1..Len(pages) :
          IsStored(pages[k]) => pages'[k].ocr_text = pages[k].ocr_text]_vars

(***************************************************************************)
(* Properties of the path guard                                            *)
(***************************************************************************)
\* path is directory or lies below it
IsInside(path, directory) ==
  /\ Len(directory.segs) <= Len(path.segs)
  /\ SubSeq(path.segs, 1, Len(directory.segs)) = directory.segs

\* C16: for every doc_id and filename, _safe_doc_path raises 403 or returns
\* a path inside the UPLOAD_DIR tree and, when a filename is given, inside
\* the document's own directory UPLOAD_DIR/doc_id; it never returns a path
\* in a sibling directory whose name begins with the directory's name.
C16_PathStaysInside ==
  \A c \in AllClients :
    (req[c].kind = "image" /\ req[c].guarded.status # 403) =>
      /\ IsInside(req[c].guarded.path, Resolve(UPLOAD_DIR))
      /\ req[c].filename # <<>> =>
           IsInside(req[c].guarded.path,
                    Resolve(JoinPath(UPLOAD_DIR, ParsePath(req[c].doc_id))))

====
